---- MODULE Spec2Model ----
(***************************************************************************)
(* A model of HocrConverter (src/HocrConverter.py): a converter object     *)
(* holding a parsed hOCR tree (self.hocr) and a namespace prefix            *)
(* (self.xmlns), with the operations parse_hocr, __str__ / to_text,         *)
(* element_coordinates and to_pdf.  The source is Python 2: '/' between two *)
(* ints is floor division, between a float and anything it is real          *)
(* division, and both raise ZeroDivisionError on a zero divisor.  Floats    *)
(* are modelled as exact rationals.                                         *)
(***************************************************************************)
EXTENDS Integers, Sequences, FiniteSets, TLC

VARIABLES
  hocr,     \* self.hocr: None, or an ElementTree (EmptyTree until parsed)
  xmlns,    \* self.xmlns
  last,     \* the last operation called on the converter and its outcome
            \* (for parse_hocr also the fields as the call found them)
  element,  \* the element handed to element_coordinates
  made,     \* how that element's title was written (what the text stands for)
  out       \* what element_coordinates returned for it

vars == <<hocr, xmlns, last, element, made, out>>

\* Python's None, and a value that is not None: an optional value is a sequence
\* of at most one element
None == <<>>

Some(v) == <<v>>

Get(o) == o[1]

(***************************************************************************)
(* Strings.  A string is a TLA+ string; Char(s, i) is s[i] (1-based).       *)
(***************************************************************************)
Char(s, i) == SubSeq(s, i, i)

\* Python's str.isspace characters that occur in the inputs
Whitespace == {" ", "\t", "\n"}

DigitChars == {"0", "1", "2", "3", "4", "5", "6", "7", "8", "9"}

\* the least j >= i with j past the end of s or s[j] outside set (a greedy x*)
RECURSIVE SkipWhile(_, _, _)
SkipWhile(s, i, set) ==
  IF i > Len(s) \/ Char(s, i) \notin set THEN i ELSE SkipWhile(s, i + 1, set)

\* the least j >= i with j past the end of s or s[j] in set
RECURSIVE SkipUntil(_, _, _)
SkipUntil(s, i, set) ==
  IF i > Len(s) \/ Char(s, i) \in set THEN i ELSE SkipUntil(s, i + 1, set)

DigitValue(c) ==
  CASE c = "0" -> 0 [] c = "1" -> 1 [] c = "2" -> 2 [] c = "3" -> 3
    [] c = "4" -> 4 [] c = "5" -> 5 [] c = "6" -> 6 [] c = "7" -> 7
    [] c = "8" -> 8 [] c = "9" -> 9

\* int(s) for a string of decimal digits
RECURSIVE PyInt(_)
PyInt(s) ==
  IF Len(s) = 0 THEN 0
  ELSE 10 * PyInt(SubSeq(s, 1, Len(s) - 1)) + DigitValue(Char(s, Len(s)))

\* str.split(): the maximal runs of non-whitespace characters, in order
RECURSIVE PySplit(_)
PySplit(s) ==
  LET a == SkipWhile(s, 1, Whitespace)
      b == SkipUntil(s, a, Whitespace)
  IN IF a > Len(s) THEN <<>>
     ELSE <<SubSeq(s, a, b - 1)>> \o PySplit(SubSeq(s, b, Len(s)))

\* str.rstrip(): s without its trailing whitespace
RECURSIVE PyRstrip(_)
PyRstrip(s) ==
  IF Len(s) > 0 /\ Char(s, Len(s)) \in Whitespace
  THEN PyRstrip(SubSeq(s, 1, Len(s) - 1))
  ELSE s

(***************************************************************************)
(* self.boxPattern = re.compile('bbox((\s+\d+){4})') and its search.        *)
(***************************************************************************)
\* one (\s+\d+) at position i: the position after it, 0 when it does not
\* match; both repetitions are greedy, and giving characters back never helps
\* (what follows a maximal run of digits is no digit)
DigitsAt(s, i, j) ==
  IF j = i THEN 0
  ELSE IF SkipWhile(s, j, DigitChars) = j THEN 0
  ELSE SkipWhile(s, j, DigitChars)

MatchSpaceDigits(s, i) ==
  IF i = 0 THEN 0 ELSE DigitsAt(s, i, SkipWhile(s, i, Whitespace))

\* the pattern anchored at i: the position after the match, 0 when none;
\* after[n] is the position after "bbox" and n repetitions of (\s+\d+)
BoxMatchAt(s, i) ==
  LET after[n \in 0..4] ==
        IF n = 0 THEN i + 4 ELSE MatchSpaceDigits(s, after[n - 1])
  IN IF i + 3 > Len(s) \/ SubSeq(s, i, i + 3) # "bbox" THEN 0 ELSE after[4]

\* the match object for the leftmost of the positions the pattern matches at
LeftmostMatch(s, hits) ==
  IF hits = {} THEN None
  ELSE LET i == CHOOSE h \in hits : \A g \in hits : h <= g
       IN Some([group1 |-> SubSeq(s, i + 4, BoxMatchAt(s, i) - 1)])

\* boxPattern.search(s): the leftmost match, None when there is none
BoxPatternSearch(s) ==
  LeftmostMatch(s, {i \in 1..Len(s) : BoxMatchAt(s, i) # 0})

\* line 68 with coords[2] used for the third int as well
IntTupleRepeated(coords) ==
  <<PyInt(coords[1]), PyInt(coords[2]), PyInt(coords[2]), PyInt(coords[4])>>

\* line 68: the four ints of the split group
IntTuple(coords) ==
  <<PyInt(coords[1]), PyInt(coords[2]), PyInt(coords[3]), PyInt(coords[4])>>

\* lines 66-69: `if matches: ...` and the return
BoxOfMatch(matches) ==
  IF matches # None THEN IntTuple(PySplit(Get(matches).group1))
  ELSE <<0, 0, 0, 0>>

element_coordinates(el) ==
  IF "title" \in DOMAIN el.attrib
  THEN BoxOfMatch(BoxPatternSearch(el.attrib["title"]))
  ELSE <<0, 0, 0, 0>>

(***************************************************************************)
(* Numbers.  A number is [f, n, d]: the value n/d in lowest terms with      *)
(* d > 0, and f says whether Python holds it as a float (d = 1 for an int). *)
(***************************************************************************)
RECURSIVE Gcd(_, _)
Gcd(a, b) == IF b = 0 THEN a ELSE Gcd(b, a % b)

Abs(a) == IF a < 0 THEN -a ELSE a

PyIntNum(n) == [f |-> FALSE, n |-> n, d |-> 1]

\* the float n/d (d # 0)
Ratio(n, d) ==
  LET g == Gcd(Abs(n), Abs(d))
      sg == IF d < 0 THEN -1 ELSE 1
  IN [f |-> TRUE, n |-> sg * (n \div g), d |-> sg * (d \div g)]

\* float(x)
PyFloat(x) == [x EXCEPT !.f = TRUE]

\* a / b for b # 0: floor division of two ints, real division otherwise
PyDiv(a, b) ==
  IF ~a.f /\ ~b.f THEN PyIntNum(a.n \div b.n) ELSE Ratio(a.n * b.d, a.d * b.n)

\* a * b
PyMul(a, b) ==
  IF ~a.f /\ ~b.f THEN PyIntNum(a.n * b.n) ELSE Ratio(a.n * b.n, a.d * b.d)

\* a - b
PySub(a, b) ==
  IF ~a.f /\ ~b.f THEN PyIntNum(a.n - b.n)
  ELSE Ratio(a.n * b.d - b.n * a.d, a.d * b.d)

\* reportlab.lib.units.inch: points per inch
inch == [f |-> TRUE, n |-> 72, d |-> 1]

(***************************************************************************)
(* Trees.  An ElementTree is [nodes |-> <<...>>], its elements in document  *)
(* order, nodes[1] the root; an element is [tag, attrib, text, tail,        *)
(* parent], parent the index of its parent (0 for the root).  EmptyTree is  *)
(* ElementTree() before parse(): it has no root.                            *)
(***************************************************************************)
EmptyTree == [nodes |-> <<>>]

\* the indices in S, ascending
RECURSIVE Ascending(_)
Ascending(S) ==
  IF S = {} THEN <<>>
  ELSE LET m == CHOOSE x \in S : \A y \in S : x <= y
       IN <<m>> \o Ascending(S \ {m})

\* element.getchildren()
getchildren(tree, i) ==
  Ascending({j \in 1..Len(tree.nodes) : tree.nodes[j].parent = i})

\* tree.findall(".//" + tag): the root's descendants with that tag, in
\* document order
findall(tree, tag) ==
  Ascending({j \in 2..Len(tree.nodes) : tree.nodes[j].tag = tag})

\* tree.find(".//" + tag): the first of them, or None
find(tree, tag) ==
  LET all == findall(tree, tag)
  IN IF all = <<>> THEN None ELSE Some(all[1])

\* _get_element_text(element)
RECURSIVE get_element_text(_, _)
get_element_text(tree, i) ==
  LET el == tree.nodes[i]
      kids == getchildren(tree, i)
      inner[k \in 0..Len(kids)] ==
        IF k = 0 THEN "" ELSE inner[k - 1] \o get_element_text(tree, kids[k])
  IN (IF el.text # None THEN Get(el.text) ELSE "")
       \o inner[Len(kids)]
       \o (IF el.tail # None THEN Get(el.tail) ELSE "")

\* __str__: [raised, value]; find on a tree without root raises (the root is
\* None); `if body:` is the truth value of an Element, its number of children
str(self) ==
  IF self.hocr = None THEN [raised |-> "", value |-> ""]
  ELSE LET tree == Get(self.hocr)
       IN IF tree = EmptyTree
          THEN [raised |-> "AttributeError", value |-> ""]
          ELSE LET body == find(tree, self.xmlns \o "body")
               IN IF body # None /\ getchildren(tree, Get(body)) # <<>>
                  THEN [raised |-> "",
                        value |-> get_element_text(tree, Get(body))]
                  ELSE [raised |-> "", value |-> ""]

(***************************************************************************)
(* parse_hocr.  A file is None when ElementTree.parse raises on it          *)
(* (malformed or unreadable), else Some(tree) with the tree it parses to.   *)
(***************************************************************************)
\* re.match('({.*})html', tag): group(1), the longest "{...}" prefix that
\* "html" follows, or None
NamespaceMatch(tag) ==
  LET ends == {j \in 2..Len(tag) : /\ Char(tag, j) = "}"
                                   /\ j + 4 <= Len(tag)
                                   /\ SubSeq(tag, j + 1, j + 4) = "html"}
  IN IF Len(tag) = 0 \/ Char(tag, 1) # "{" \/ ends = {} THEN None
     ELSE Some(SubSeq(tag, 1, CHOOSE j \in ends : \A k \in ends : k <= j))

\* parse_hocr without the else branch of lines 82-83
ParseKeepingPrefix(self, file) ==
  IF file = None
  THEN [hocr |-> Some(EmptyTree), xmlns |-> self.xmlns, raised |-> TRUE]
  ELSE LET matches == NamespaceMatch(Get(file).nodes[1].tag)
       IN [hocr |-> file,
           xmlns |-> IF matches # None THEN Get(matches) ELSE self.xmlns,
           raised |-> FALSE]

\* the converter's fields after parse_hocr(file), and whether it raised
parse_hocr(self, file) ==
  IF file = None
  THEN [hocr |-> Some(EmptyTree), xmlns |-> self.xmlns, raised |-> TRUE]
  ELSE LET matches == NamespaceMatch(Get(file).nodes[1].tag)
       IN [hocr |-> file,
           xmlns |-> IF matches # None THEN Get(matches) ELSE "",
           raised |-> FALSE]

(***************************************************************************)
(* to_pdf.  An image is [size |-> <<W, H>>, info |-> a function that may    *)
(* have the key "dpi" with a pair of positive ints].  The result is the     *)
(* record                                                                   *)
(*   raised, at   the exception that ended the call ("" when it returned)   *)
(*                and the source line that raised it (0 when none)          *)
(*   width, height, ocr_dpi   the locals of those names                     *)
(*   pagesize     Some(<<w, h>>) once Canvas(...) was created               *)
(*   image        Some(<<w, h>>) once drawInlineImage drew the image        *)
(*   runs         the text objects given to pdf.drawText, in order          *)
(*   saved        whether pdf.showPage() and pdf.save() were reached        *)
(***************************************************************************)
\* the default of to_pdf's parameter fontsize
fontsize == 8

\* pdf.stringWidth(text, "Courier", fontsize): every Courier glyph is 600/1000
\* of the font size wide
stringWidth(text) == Ratio(Len(text) * 600 * fontsize, 1000)

Raise(r, exc, line) == [r EXCEPT !.raised = exc, !.at = line]

\* lines 99-110: the page size from the image's own DPI, and the default
\* ocr_dpi
ImageGeometry(im) ==
  LET known == "dpi" \in DOMAIN im.info
  IN [raised |-> "", at |-> 0,
      width |-> IF known
                THEN Some(PyDiv(PyFloat(PyIntNum(im.size[1])),
                                PyIntNum(im.info["dpi"][1])))
                ELSE None,
      height |-> IF known
                 THEN Some(PyDiv(PyFloat(PyIntNum(im.size[2])),
                                 PyIntNum(im.info["dpi"][2])))
                 ELSE None,
      ocr_dpi |-> <<PyIntNum(300), PyIntNum(300)>>,
      pagesize |-> None, image |-> None, runs |-> <<>>, saved |-> FALSE]

\* lines 122-124: width and height as the page box gives them when the image
\* gave none, then ocr_dpi
PageSize(ocrwidth, ocrheight, width, height, r) ==
  IF width.n = 0 \/ height.n = 0
  THEN Raise([r EXCEPT !.width = Some(width), !.height = Some(height)],
             "ZeroDivisionError", 124)
  ELSE [r EXCEPT
          !.width = Some(width), !.height = Some(height),
          !.ocr_dpi = <<PyDiv(ocrwidth, width), PyDiv(ocrheight, height)>>]

\* lines 117-124 without the test of line 119
PageBoxOverwriting(ocrwidth, ocrheight, r) ==
  PageSize(ocrwidth, ocrheight, PyDiv(ocrwidth, PyIntNum(300)),
           PyDiv(ocrheight, PyIntNum(300)), r)

\* lines 117-124, for the box that element_coordinates returned
PageBoxAt(ocrwidth, ocrheight, r) ==
  IF r.width = None
  THEN PageSize(ocrwidth, ocrheight, PyDiv(ocrwidth, PyIntNum(300)),
                PyDiv(ocrheight, PyIntNum(300)), r)
  ELSE PageSize(ocrwidth, ocrheight, Get(r.width), Get(r.height), r)

PageCoords(coords, r) ==
  PageBoxAt(PyIntNum(coords[3] - coords[1]), PyIntNum(coords[4] - coords[2]), r)

\* lines 116-125: the body of `if div.attrib['class'] == 'ocr_page'`
PageBox(div, r) == PageCoords(element_coordinates(div), r)

\* lines 114-125: the loop over the div elements from the k-th on
RECURSIVE PageLoop(_, _, _, _)
PageLoop(self, divs, k, r) ==
  IF k > Len(divs) THEN r
  ELSE LET div == Get(self.hocr).nodes[divs[k]]
       IN IF "class" \notin DOMAIN div.attrib THEN Raise(r, "KeyError", 115)
          ELSE IF div.attrib["class"] = "ocr_page" THEN PageBox(div, r)
          ELSE PageLoop(self, divs, k + 1, r)

\* lines 113-132: the page size and ocr_dpi from the hOCR tree, and the
\* 96 DPI guess
PageGeometry(self, im, r) ==
  LET paged ==
        IF self.hocr = None THEN r
        ELSE IF Get(self.hocr) = EmptyTree
        THEN Raise(r, "AttributeError", 114)
        ELSE PageLoop(self, findall(Get(self.hocr), self.xmlns \o "div"), 1, r)
  IN IF paged.raised = "" /\ paged.width = None
     THEN [paged EXCEPT
             !.width = Some(PyDiv(PyFloat(PyIntNum(im.size[1])), PyIntNum(96))),
             !.height = Some(PyDiv(PyFloat(PyIntNum(im.size[2])), PyIntNum(96)))]
     ELSE paged

\* lines 135-138: the canvas and the image on it
CanvasAndImage(r) ==
  LET size == <<PyMul(Get(r.width), inch), PyMul(Get(r.height), inch)>>
  IN [r EXCEPT !.pagesize = Some(size), !.image = Some(size)]

\* lines 152-156 with the scale left a fraction, not a percentage
ScaledRunFraction(i, text, left, right, top, natural, r) ==
  IF natural.n = 0 THEN Raise(r, "ZeroDivisionError", 152)
  ELSE [r EXCEPT !.runs = Append(@,
          [line |-> i,
           origin |-> <<left, top>>,
           horizScale |-> PyDiv(PySub(right, left), natural),
           text |-> text])]

\* lines 152-156 with a line of zero natural width skipped
ScaledRunSkippingEmpty(i, text, left, right, top, natural, r) ==
  IF natural.n = 0 THEN r
  ELSE [r EXCEPT !.runs = Append(@,
          [line |-> i,
           origin |-> <<left, top>>,
           horizScale |-> PyMul(PyDiv(PySub(right, left), natural),
                                PyIntNum(100)),
           text |-> text])]

\* lines 152-156: the horizontal scale for the text's natural width, then
\* the text object drawn
ScaledRun(i, text, left, right, top, natural, r) ==
  IF natural.n = 0 THEN Raise(r, "ZeroDivisionError", 152)
  ELSE [r EXCEPT !.runs = Append(@,
          [line |-> i,
           origin |-> <<left, top>>,
           horizScale |-> PyMul(PyDiv(PySub(right, left), natural),
                                PyIntNum(100)),
           text |-> text])]

\* lines 149-152 with the box's top (coords[1] of the source) for its bottom
PlacedRunAtTop(i, line, coords, r) ==
  IF line.text = None THEN Raise(r, "AttributeError", 152)
  ELSE ScaledRun(i, PyRstrip(Get(line.text)),
         PyMul(PyDiv(PyFloat(PyIntNum(coords[1])), r.ocr_dpi[1]), inch),
         PyMul(PyDiv(PyFloat(PyIntNum(coords[3])), r.ocr_dpi[1]), inch),
         PySub(PyMul(Get(r.height), inch),
               PyMul(PyDiv(PyFloat(PyIntNum(coords[2])), r.ocr_dpi[2]), inch)),
         stringWidth(PyRstrip(Get(line.text))), r)

\* lines 149-152, for non-zero ocr_dpi
PlacedRun(i, line, coords, r) ==
  IF line.text = None THEN Raise(r, "AttributeError", 152)
  ELSE ScaledRun(i, PyRstrip(Get(line.text)),
         PyMul(PyDiv(PyFloat(PyIntNum(coords[1])), r.ocr_dpi[1]), inch),
         PyMul(PyDiv(PyFloat(PyIntNum(coords[3])), r.ocr_dpi[1]), inch),
         PySub(PyMul(Get(r.height), inch),
               PyMul(PyDiv(PyFloat(PyIntNum(coords[4])), r.ocr_dpi[2]), inch)),
         stringWidth(PyRstrip(Get(line.text))), r)

\* lines 143-156: the body of `if line.attrib['class'] == 'ocr_line'`
TextRun(i, line, r) ==
  IF r.ocr_dpi[1].n = 0 \/ r.ocr_dpi[2].n = 0
  THEN Raise(r, "ZeroDivisionError", 149)
  ELSE PlacedRun(i, line, element_coordinates(line), r)

\* lines 142-156: one pass of the loop body, for the span at index i
LineStep(self, i, r) ==
  LET line == Get(self.hocr).nodes[i]
  IN IF "class" \notin DOMAIN line.attrib THEN Raise(r, "KeyError", 142)
     ELSE IF line.attrib["class"] = "ocr_line" THEN TextRun(i, line, r)
     ELSE r

\* lines 141-156: the loop over the span elements; an exception ends it
LineLoop(self, spans, r) ==
  LET after[k \in 0..Len(spans)] ==
        IF k = 0 THEN r
        ELSE IF after[k - 1].raised # "" THEN after[k - 1]
        ELSE LineStep(self, spans[k], after[k - 1])
  IN after[Len(spans)]

\* lines 140-160: the text layer, then showPage and save
TextLayer(self, r) ==
  LET done ==
        IF self.hocr = None THEN r
        ELSE LineLoop(self, findall(Get(self.hocr), self.xmlns \o "span"), r)
  IN IF done.raised = "" THEN [done EXCEPT !.saved = TRUE] ELSE done

\* the whole of to_pdf; each stage's result is named once (x \in {e})
to_pdf(self, im) ==
  CHOOSE result \in
    { IF geometry.raised # "" THEN geometry
      ELSE TextLayer(self, CanvasAndImage(geometry)) :
        geometry \in
          { PageGeometry(self, im, fromImage) :
              fromImage \in {ImageGeometry(im)} } } : TRUE

(***************************************************************************)
(* The inputs: hOCR files, images and title attributes.                     *)
(***************************************************************************)
\* the most elements below the body of a generated hOCR file
MaxElements == 2

\* the most integers written after "bbox" in a generated title
MaxInts == 5

NoAttrib == [k \in {} |-> ""]

\* the namespace prefixes ElementTree puts before the tags of a file: none,
\* or that of an XHTML file
Namespaces == {"", "{http://www.w3.org/1999/xhtml}"}

\* What a file holds below its body.  nest says the element is written inside
\* the element before it rather than beside it.
ElementKinds ==
  { [tag |-> "div", nest |-> FALSE, text |-> None, tail |-> None,
     attrib |-> [class |-> "ocr_page", title |-> "bbox 0 0 2550 3300"]],
    [tag |-> "div", nest |-> FALSE, text |-> None, tail |-> None,
     attrib |-> [class |-> "ocr_page"]],
    [tag |-> "div", nest |-> TRUE, text |-> None, tail |-> None,
     attrib |-> [class |-> "ocr_carea", title |-> "bbox 90 90 510 240"]],
    [tag |-> "div", nest |-> FALSE, text |-> None, tail |-> Some("\n"),
     attrib |-> NoAttrib],
    [tag |-> "span", nest |-> TRUE, text |-> Some("Hello"), tail |-> Some("\n"),
     attrib |-> [class |-> "ocr_line", title |-> "bbox 100 100 400 130"]],
    [tag |-> "span", nest |-> FALSE, text |-> Some("World, Test\n"),
     tail |-> None,
     attrib |-> [class |-> "ocr_line",
                 title |-> "image \"p.png\"; bbox 100 200 500 230; x_wconf 93"]],
    [tag |-> "span", nest |-> FALSE, text |-> Some(" \n"), tail |-> None,
     attrib |-> [class |-> "ocr_line", title |-> "bbox 100 300 500 330"]],
    [tag |-> "span", nest |-> FALSE, text |-> None, tail |-> None,
     attrib |-> [class |-> "ocr_line", title |-> "bbox 100 400 500 430"]],
    [tag |-> "span", nest |-> TRUE, text |-> Some("word"), tail |-> Some(" "),
     attrib |-> [class |-> "ocrx_word", title |-> "bbox 100 400 200 430"]],
    [tag |-> "span", nest |-> TRUE, text |-> Some("em"), tail |-> None,
     attrib |-> NoAttrib] }

\* the tree ElementTree parses from a file with that namespace, with or
\* without a body (whose text is "Page "), and those elements below it
MakeTree(ns, hasBody, elems) ==
  LET top == IF hasBody THEN 2 ELSE 1
      Node(k) == [tag |-> ns \o elems[k].tag,
                  attrib |-> elems[k].attrib,
                  text |-> elems[k].text,
                  tail |-> elems[k].tail,
                  parent |-> IF elems[k].nest /\ k > 1 THEN top + k - 1
                             ELSE top]
  IN [nodes |->
        <<[tag |-> ns \o "html", attrib |-> NoAttrib, text |-> None,
           tail |-> None, parent |-> 0]>>
        \o (IF hasBody
            THEN <<[tag |-> ns \o "body", attrib |-> NoAttrib,
                    text |-> Some("Page "), tail |-> Some("\n"), parent |-> 1]>>
            ELSE <<>>)
        \o [k \in 1..Len(elems) |-> Node(k)]]

ElementSeqs == UNION {[1..n -> ElementKinds] : n \in 0..MaxElements}

\* the well-formed hOCR files
HocrFiles ==
  {MakeTree(ns, b, e) : ns \in Namespaces, b \in BOOLEAN, e \in ElementSeqs}

\* the files a converter is given again after construction: a file
\* ElementTree cannot parse (None), and a few well-formed ones
ReloadFiles ==
  {None} \cup
  {Some(MakeTree(ns, TRUE, e)) :
     ns \in Namespaces,
     e \in {s \in ElementSeqs :
              Len(s) <= 1 /\ \A k \in 1..Len(s) : s[k].text = Some("Hello")}}

\* the images: with DPI metadata (that of the OCR, half of it, and one that
\* differs by axis) and without
Images ==
  { [size |-> <<2550, 3300>>, info |-> [dpi |-> <<300, 300>>]],
    [size |-> <<1275, 1650>>, info |-> [dpi |-> <<150, 150>>]],
    [size |-> <<960, 1080>>, info |-> [dpi |-> <<72, 96>>]],
    [size |-> <<960, 1080>>, info |-> NoAttrib] }

\* str(n) for an int n >= 0
RECURSIVE PyStr(_)
PyStr(n) ==
  LET digit == SubSeq("0123456789", (n % 10) + 1, (n % 10) + 1)
  IN IF n < 10 THEN digit ELSE PyStr(n \div 10) \o digit

\* How a title attribute is written: the properties before the box, the
\* keyword, the ints after it (each after the separator), the properties after
TitleRecipes ==
  [ before : {"", "image \"p.png\"; ", "x_bboxes 1 2 3 4 5 6 7 8; ",
              "bbox 1 2; baseline 0 -5; "},
    keyword : {"bbox", "box"},
    ints : UNION {[1..n -> {0, 7, 2550}] : n \in 0..MaxInts},
    separator : {" ", "\t", "\n  "},
    after : {"", "; x_wconf 93", ";textangle 90"} ]

\* the title a recipe writes
WriteTitle(recipe) ==
  LET written[n \in 0..Len(recipe.ints)] ==
        IF n = 0 THEN recipe.before \o recipe.keyword
        ELSE written[n - 1] \o recipe.separator \o PyStr(recipe.ints[n])
  IN written[Len(recipe.ints)] \o recipe.after

(***************************************************************************)
(* The converter.                                                           *)
(***************************************************************************)
self == [hocr |-> hocr, xmlns |-> xmlns]

\* __init__(hocrFileName): the fields' defaults, then parse_hocr when a file
\* name is given (a constructor whose parse raises makes no converter)
Init ==
  /\ \E file \in {None} \cup {Some(t) : t \in HocrFiles} :
       LET fresh == [hocr |-> None, xmlns |-> ""]
           loaded == IF file = None THEN fresh ELSE parse_hocr(fresh, file)
       IN /\ hocr = loaded.hocr
          /\ xmlns = loaded.xmlns
  /\ last = [op |-> "__init__"]
  /\ element = None
  /\ made = None
  /\ out = None

ParseHocr ==
  /\ \E file \in ReloadFiles :
       LET after == parse_hocr(self, file)
       IN /\ hocr' = after.hocr
          /\ xmlns' = after.xmlns
          /\ last' = [op |-> "parse_hocr", raised |-> after.raised,
                       before |-> self]
  /\ UNCHANGED <<element, made, out>>

ToPdf ==
  /\ \E im \in Images :
       last' = [op |-> "to_pdf", im |-> im, result |-> to_pdf(self, im)]
  /\ UNCHANGED <<hocr, xmlns, element, made, out>>

\* to_text(outFileName) writes str(self) to the file
ToText ==
  /\ last' = [op |-> "to_text", result |-> str(self)]
  /\ UNCHANGED <<hocr, xmlns, element, made, out>>

Next == ParseHocr \/ ToPdf \/ ToText

Spec == Init /\ [][Next]_vars

(***************************************************************************)
(* element_coordinates on its own: an element without title, or with a      *)
(* title written from a recipe, is handed to it once.                       *)
(***************************************************************************)
InitBox ==
  /\ hocr = None
  /\ xmlns = ""
  /\ last = [op |-> "__init__"]
  /\ made \in {None} \cup {Some(recipe) : recipe \in TitleRecipes}
  /\ element =
       [tag |-> "span", text |-> None, tail |-> None, parent |-> 2,
        attrib |-> IF made = None THEN [class |-> "ocr_line"]
                   ELSE [class |-> "ocr_line", title |-> WriteTitle(Get(made))]]
  /\ out = None

ElementCoordinates ==
  /\ out = None
  /\ out' = Some(element_coordinates(element))
  /\ UNCHANGED <<hocr, xmlns, last, element, made>>

NextBox == ElementCoordinates

SpecBox == InitBox /\ [][NextBox]_vars

(***************************************************************************)
(* Properties.                                                              *)
(***************************************************************************)
\* a document is loaded: self.hocr is a parsed tree
Loaded == hocr # None /\ Get(hocr) # EmptyTree

ClassIs(i, class) ==
  /\ "class" \in DOMAIN Get(hocr).nodes[i].attrib
  /\ Get(hocr).nodes[i].attrib["class"] = class

BoxOf(i) == element_coordinates(Get(hocr).nodes[i])

\* the elements of the loaded document with that tag and class that the
\* converter's lookups find, in document order
Found(tag, class) ==
  SelectSeq(findall(Get(hocr), xmlns \o tag), LAMBDA i : ClassIs(i, class))

\* every element of the loaded document with class ocr_line, in document order
OcrLines ==
  Ascending({i \in 1..Len(Get(hocr).nodes) : ClassIs(i, "ocr_line")})

\* the ocr_line elements whose right-trimmed text is empty
EmptyLines ==
  SelectSeq(Found("span", "ocr_line"),
            LAMBDA i : /\ Get(hocr).nodes[i].text # None
                       /\ PyRstrip(Get(Get(hocr).nodes[i].text)) = "")

LinesOf(runs) == [k \in 1..Len(runs) |-> runs[k].line]

Below(seq, bound) == SelectSeq(seq, LAMBDA i : i < bound)

\* a < b
NumLess(a, b) == a.n * b.d < b.n * a.d

\* the optional number is n/d
IsNum(optional, n, d) ==
  optional # None /\ Get(optional).n * d = n * Get(optional).d

Completed(result) ==
  result.raised = "" /\ result.saved /\ result.image # None

\* C1: without image DPI, an ocr_page box of positive width and height gives
\* the page size ((x1-x0)/300, (y1-y0)/300) inches and dpiX = dpiY = 300.
C1_PageSizeAt300Dpi ==
  (/\ last.op = "to_pdf"
   /\ "dpi" \notin DOMAIN last.im.info
   /\ Loaded
   /\ Found("div", "ocr_page") # <<>>) =>
    LET box == BoxOf(Found("div", "ocr_page")[1])
    IN (box[3] - box[1] > 0 /\ box[4] - box[2] > 0) =>
         /\ IsNum(last.result.width, box[3] - box[1], 300)
         /\ IsNum(last.result.height, box[4] - box[2], 300)
         /\ IsNum(Some(last.result.ocr_dpi[1]), 300, 1)
         /\ IsNum(Some(last.result.ocr_dpi[2]), 300, 1)

\* C2: with image DPI (Dx, Dy) and pixel size (W, H) the page size is
\* (W/Dx, H/Dy) inches, whatever the converter holds, and the canvas is
\* created with that size (in points).
C2_PageSizeFromImageDpi ==
  (last.op = "to_pdf" /\ "dpi" \in DOMAIN last.im.info) =>
    /\ IsNum(last.result.width, last.im.size[1], last.im.info["dpi"][1])
    /\ IsNum(last.result.height, last.im.size[2], last.im.info["dpi"][2])
    /\ last.result.pagesize # None =>
         /\ IsNum(Some(Get(last.result.pagesize)[1]),
                  last.im.size[1] * 72, last.im.info["dpi"][1])
         /\ IsNum(Some(Get(last.result.pagesize)[2]),
                  last.im.size[2] * 72, last.im.info["dpi"][2])

\* C2 happens: an image with DPI over a document whose ocr_page has no box,
\* and the canvas was created
C2_Witness ==
  /\ last.op = "to_pdf"
  /\ "dpi" \in DOMAIN last.im.info
  /\ Loaded
  /\ Found("div", "ocr_page") # <<>>
  /\ BoxOf(Found("div", "ocr_page")[1]) = <<0, 0, 0, 0>>
  /\ last.result.pagesize # None

C4_TextOfBody ==
  (last.op = "to_text" /\ (hocr = None \/ Loaded)) =>
    /\ last.result.raised = ""
    /\ last.result.value =
         IF hocr = None \/ find(Get(hocr), xmlns \o "body") = None THEN ""
         ELSE get_element_text(Get(hocr), Get(find(Get(hocr), xmlns \o "body")))

\* C5: with a document loaded, the prefix of the lookups is that of the root
\* tag of the document loaded last: "{U}" for a root {U}html, empty for an
\* unnamespaced root.
C5_PrefixOfLastLoad ==
  Loaded =>
    LET tag == Get(hocr).nodes[1].tag
    IN xmlns = IF SubSeq(tag, 1, 1) = "{"
               THEN SubSeq(tag, 1, Len(tag) - Len("html"))
               ELSE ""

\* C5 happens: an unnamespaced document was loaded over a namespaced one
C5_Witness ==
  /\ last.op = "parse_hocr"
  /\ ~last.raised
  /\ last.before.xmlns # ""
  /\ Get(hocr).nodes[1].tag = "html"
  /\ xmlns = ""

\* C6: to_pdf completes with the image and exactly one text run for each
\* ocr_line element of the loaded document, in document order; without a
\* document it completes with the image and no text run.
C6_OneRunPerLine ==
  (last.op = "to_pdf" /\ (hocr = None \/ Loaded)) =>
    /\ Completed(last.result)
    /\ LinesOf(last.result.runs) = IF hocr = None THEN <<>> ELSE OcrLines

OriginIs(run, box, result) ==
  /\ IsNum(Some(run.origin[1]),
           box[1] * 72 * result.ocr_dpi[1].d, result.ocr_dpi[1].n)
  /\ IsNum(Some(run.origin[2]),
           72 * (Get(result.height).n * result.ocr_dpi[2].n
                   - box[4] * result.ocr_dpi[2].d * Get(result.height).d),
           Get(result.height).d * result.ocr_dpi[2].n)

\* C7: every rendered line's origin is (x0/dpiX, pageHeight - y1/dpiY) inches
\* in points, and of two rendered lines the one with the smaller y1 has the
\* strictly larger y origin.
C7_TextOrigin ==
  last.op = "to_pdf" =>
    \A k \in 1..Len(last.result.runs) :
      /\ OriginIs(last.result.runs[k], BoxOf(last.result.runs[k].line),
                  last.result)
      /\ \A j \in 1..Len(last.result.runs) :
           BoxOf(last.result.runs[j].line)[4] < BoxOf(last.result.runs[k].line)[4]
             => NumLess(last.result.runs[k].origin[2],
                        last.result.runs[j].origin[2])

\* C7 happens: two lines with different y1 were rendered and the page saved
C7_Witness ==
  /\ last.op = "to_pdf"
  /\ Len(last.result.runs) = 2
  /\ BoxOf(last.result.runs[1].line)[4] < BoxOf(last.result.runs[2].line)[4]
  /\ last.result.saved

\* C8: for every rendered line of natural width w > 0, w * s / 100 is
\* (x1/dpiX - x0/dpiX) inches in points, s the horizontal scale.
C8_HorizScale ==
  last.op = "to_pdf" =>
    \A k \in 1..Len(last.result.runs) :
      LET run == last.result.runs[k]
          w == stringWidth(run.text)
          dpiX == last.result.ocr_dpi[1]
      IN w.n > 0 =>
           IsNum(Some(Ratio(w.n * run.horizScale.n, w.d * run.horizScale.d * 100)),
                 (BoxOf(run.line)[3] - BoxOf(run.line)[1]) * 72 * dpiX.d, dpiX.n)

\* C8 happens: a line was rendered at a resolution that the page box and the
\* image's DPI give together
C8_Witness ==
  /\ last.op = "to_pdf"
  /\ Len(last.result.runs) > 0
  /\ last.result.ocr_dpi[1].n # 300
  /\ last.result.runs[1].horizScale.n > 0

\* the call got as far as the scale of line i: the page geometry was
\* resolved, ocr_dpi is not zero, and every span before i has a class and,
\* if an ocr_line, a text
ReachesLine(i, result) ==
  /\ result.pagesize # None
  /\ result.ocr_dpi[1].n # 0 /\ result.ocr_dpi[2].n # 0
  /\ \A j \in 1..Len(Get(hocr).nodes) :
       (j < i /\ Get(hocr).nodes[j].tag = xmlns \o "span") =>
         /\ "class" \in DOMAIN Get(hocr).nodes[j].attrib
         /\ ClassIs(j, "ocr_line") => Get(hocr).nodes[j].text # None

C10_FailedParseKeepsState ==
  (last.op = "parse_hocr" /\ last.raised) =>
    /\ hocr = last.before.hocr
    /\ xmlns = last.before.xmlns

====
